---- MODULE Spec2Model ----
(***************************************************************************)
(* Model of analyze_tile_coverage.py: the black-area detector              *)
(* (detect_black_areas), the expected UI layout (analyze_ui_regions) and   *)
(* the batch run of main() with the process exit of the __main__ block.    *)
(*                                                                         *)
(* Three specifications:                                                   *)
(*   Spec         a run of the script over a directory of files;           *)
(*   DetectSpec   detect_black_areas as a pure function of a decoded image  *)
(*                and a threshold;                                         *)
(*   ClassifySpec the per-screenshot intrusion decision of main() as a     *)
(*                pure function of a bounding box and an image size.       *)
(*                                                                         *)
(* Environment: Pillow and numpy are installed (the ImportError exit of    *)
(* the __main__ block is not taken), and the directory and its files do    *)
(* not change during a run, so the second Image.open of a file, in         *)
(* analyze_ui_regions, succeeds whenever the first one did.                *)
(***************************************************************************)
EXTENDS Integers, Sequences, FiniteSets, TLC

VARIABLES
    dir_exists,     \* os.path.exists(screenshot_dir)
    dir,            \* the directory: file name -> file content
    pc,             \* position of the script
    screenshots,    \* main(): sorted list of qualifying file names
    idx,            \* main(): number of loop iterations started
    issues_found,   \* main(): the issue list
    result,         \* the last value returned by detect_black_areas
    success,        \* the value returned by main()
    exit_status,    \* the process exit status
    stdout,         \* the lines printed so far
    analyzed,       \* the file names handed to detect_black_areas so far
    image,          \* DetectSpec: the image handed to detect_black_areas
    black_threshold,\* DetectSpec: the threshold handed to detect_black_areas
    black_region,   \* ClassifySpec: the bounding box under decision
    img_size,       \* ClassifySpec: (width, height) of the image
    game_area_black \* ClassifySpec: the decision taken

vars == <<dir_exists, dir, pc, screenshots, idx, issues_found, result, success,
          exit_status, stdout, analyzed, image, black_threshold, black_region,
          img_size, game_area_black>>

(***************************************************************************)
(* Bounds of the model.                                                    *)
(***************************************************************************)
MaxFiles == 3      \* directory entries
MaxRows == 2       \* rows of the exhaustively enumerated images
MaxCols == 3       \* columns of the exhaustively enumerated images

(***************************************************************************)
(* Program constants.                                                      *)
(***************************************************************************)
DefaultBlackThreshold == 10
HeaderBottom == 60
SidebarTop == 60
SidebarRight == 200
TopIssues == 5

(***************************************************************************)
(* Small helpers over integers and sequences.                              *)
(***************************************************************************)
SetMin(S) == CHOOSE x \in S : \A y \in S : x <= y
SetMax(S) == CHOOSE x \in S : \A y \in S : x >= y

RECURSIVE Reverse(_)
Reverse(s) == IF s = <<>> THEN <<>> ELSE Append(Reverse(Tail(s)), Head(s))

(***************************************************************************)
(* Images.  A file that decodes holds an image of some mode: "L" (one      *)
(* channel), "RGB" or "RGBA"; size is PIL's (width, height); data[y][x] is *)
(* the pixel of row y and column x, a tuple of channel values.             *)
(***************************************************************************)
Undecodable == [kind |-> "undecodable"]

\* An image of w columns and h rows whose cells in `cells` hold fg, the others bg.
Painted(mode, w, h, bg, fg, cells) ==
    [kind |-> "image", mode |-> mode, size |-> <<w, h>>,
     data |-> [y \in 0..(h - 1) |->
                 [x \in 0..(w - 1) |-> IF <<y, x>> \in cells THEN fg ELSE bg]]]

\* Image.convert('RGB'): grey is replicated, alpha is dropped.
ConvertRGB(img) ==
    [img EXCEPT !.mode = "RGB",
                !.data = [y \in DOMAIN img.data |->
                            [x \in DOMAIN img.data[y] |->
                               LET p == img.data[y][x]
                               IN  IF img.mode = "L" THEN <<p[1], p[1], p[1]>>
                                   ELSE <<p[1], p[2], p[3]>>]]]

\* np.array(img): shape (height, width, 3), indexed [row][column][channel].
NpArray(img) ==
    [shape |-> <<img.size[2], img.size[1], 3>>, a |-> img.data]


(***************************************************************************)
(* Floats.  A float is kept as the reduced fraction num/den it was         *)
(* computed from; den = 0 is the nan that numpy returns for 0/0.  For the  *)
(* pixel counts of the model (below 2^26) distinct fractions are distinct  *)
(* doubles, so equality and order of the fractions are those of the        *)
(* doubles.                                                                *)
(***************************************************************************)
RECURSIVE GCD(_, _)
GCD(a, b) == IF b = 0 THEN a ELSE GCD(b, a % b)

Float(n, d) ==
    IF d = 0 THEN [num |-> 0, den |-> 0]
    ELSE [num |-> n \div GCD(n, d), den |-> d \div GCD(n, d)]

IsNaN(f) == f.den = 0
TrueDivide(a, b) == Float(a, b)                 \* numpy: a / b, 0/0 is nan
Times(f, k) == Float(f.num * k, f.den)          \* f * k
FloatLess(f, g) == ~IsNaN(f) /\ ~IsNaN(g) /\ f.num * g.den < g.num * f.den
FloatEq(f, g) == ~IsNaN(f) /\ ~IsNaN(g) /\ f.num * g.den = g.num * f.den
FloatOf(k) == Float(k, 1)

(***************************************************************************)
(* detect_black_areas(image_path, black_threshold).  The file at           *)
(* image_path is given by its content; Image.open raises on a file that    *)
(* does not decode, and the exception leaves the function.                 *)
(***************************************************************************)
Raised == [raised |-> "Image.open"]
IsRaised(r) == "raised" \in DOMAIN r

\* (mutation of BlackMask: <= in place of <)
BlackMask_AtMost(img_array, thr) ==
    [r \in 0..(img_array.shape[1] - 1) |->
       [c \in 0..(img_array.shape[2] - 1) |->
          \A ch \in 1..img_array.shape[3] : img_array.a[r][c][ch] <= thr]]

\* np.all(img_array < black_threshold, axis=2)
BlackMask(img_array, thr) ==
    [r \in 0..(img_array.shape[1] - 1) |->
       [c \in 0..(img_array.shape[2] - 1) |->
          \A ch \in 1..img_array.shape[3] : img_array.a[r][c][ch] < thr]]

\* np.argwhere(black_mask): the (row, column) pairs where the mask is true
ArgWhere(mask) ==
    UNION {{<<r, c>> : c \in {x \in DOMAIN mask[r] : mask[r][x]}} : r \in DOMAIN mask}

\* np.sum(black_mask)
NpSum(mask) ==
    LET RECURSIVE Acc(_)
        Acc(n) == IF n = 0 THEN 0
                  ELSE Acc(n - 1) + Cardinality({x \in DOMAIN mask[n - 1] : mask[n - 1][x]})
    IN  Acc(Cardinality(DOMAIN mask))

\* (mutation of BoundingBox: the two axes exchanged)
BoundingBox_Transposed(black_coords) ==
    LET rows == {rc[1] : rc \in black_coords}
        cols == {rc[2] : rc \in black_coords}
    IN  [top |-> SetMin(cols), left |-> SetMin(rows),
         bottom |-> SetMax(cols), right |-> SetMax(rows)]

BoundingBox(black_coords) ==
    LET rows == {rc[1] : rc \in black_coords}
        cols == {rc[2] : rc \in black_coords}
        top_left == <<SetMin(rows), SetMin(cols)>>          \* min(axis=0)
        bottom_right == <<SetMax(rows), SetMax(cols)>>      \* max(axis=0)
    IN  [top |-> top_left[1], left |-> top_left[2],
         bottom |-> bottom_right[1], right |-> bottom_right[2]]

\* (mutation of Percentage: the fraction, not multiplied by 100)
Percentage_Fraction(black_pixels, total_pixels) ==
    TrueDivide(black_pixels, total_pixels)

Percentage(black_pixels, total_pixels) ==
    Times(TrueDivide(black_pixels, total_pixels), 100)

detect_black_areas(file, thr) ==
    IF file.kind # "image" THEN Raised
    ELSE
    LET img_array == NpArray(ConvertRGB(file))
        black_mask == BlackMask(img_array, thr)
        total_pixels == img_array.shape[1] * img_array.shape[2]
        black_pixels == NpSum(black_mask)
        black_percentage == Percentage(black_pixels, total_pixels)
        black_coords == ArgWhere(black_mask)
    IN  IF black_pixels > 0 /\ Cardinality(black_coords) > 0
        THEN [has_black |-> TRUE,
              percentage |-> black_percentage,
              black_pixels |-> black_pixels,
              total_pixels |-> total_pixels,
              black_region |-> BoundingBox(black_coords)]
        ELSE [has_black |-> FALSE,
              percentage |-> black_percentage,
              black_pixels |-> black_pixels,
              total_pixels |-> total_pixels]


(***************************************************************************)
(* analyze_ui_regions(image_path): the expected UI layout and the size.    *)
(***************************************************************************)
UIRegions(width, height) ==
    [header  |-> [top |-> 0, bottom |-> HeaderBottom, left |-> 0, right |-> width],
     sidebar |-> [top |-> SidebarTop, bottom |-> height, left |-> 0,
                  right |-> SidebarRight]]

analyze_ui_regions(file) ==
    LET width == file.size[1]
        height == file.size[2]
    IN  <<UIRegions(width, height), <<width, height>>>>

\* (mutation of IsGameAreaBlack: either test suffices)
IsGameAreaBlack_Either(region, ui_regions) ==
    \/ region.bottom > ui_regions.header.bottom
    \/ region.right > ui_regions.sidebar.right

\* main(): the value of game_area_black after the two nested tests
IsGameAreaBlack(region, ui_regions) ==
    /\ region.bottom > ui_regions.header.bottom
    /\ region.right > ui_regions.sidebar.right

(***************************************************************************)
(* File names are sequences of character codes.                            *)
(***************************************************************************)
DotPng == <<46, 112, 110, 103>>                                  \* ".png"
EdgeWord == <<101, 100, 103, 101>>                               \* "edge"
ZoomWord == <<122, 111, 111, 109>>                               \* "zoom"

Name_Edge == <<69, 100, 103, 101>> \o DotPng                     \* "Edge.png"
Name_a == <<97>> \o DotPng                                       \* "a.png"
Name_zoom == ZoomWord \o DotPng                                  \* "zoom.png"
Name_aPNG == <<97, 46, 80, 78, 71>>                              \* "a.PNG"
Names == {Name_Edge, Name_a, Name_zoom, Name_aPNG}

\* str.endswith
EndsWith(s, suffix) ==
    /\ Len(s) >= Len(suffix)
    /\ SubSeq(s, Len(s) - Len(suffix) + 1, Len(s)) = suffix

\* str.lower, on the ASCII letters
Lower(s) == [i \in 1..Len(s) |-> IF s[i] >= 65 /\ s[i] <= 90 THEN s[i] + 32 ELSE s[i]]

\* sub in s
Contains(sub, s) ==
    \E i \in 1..(Len(s) - Len(sub) + 1) : SubSeq(s, i, i + Len(sub) - 1) = sub

\* s < t for Python strings: by code point, a proper prefix first
RECURSIVE StrLess(_, _)
StrLess(s, t) ==
    IF t = <<>> THEN FALSE
    ELSE IF s = <<>> THEN TRUE
    ELSE IF Head(s) # Head(t) THEN Head(s) < Head(t)
    ELSE StrLess(Tail(s), Tail(t))

\* sorted(...) of a collection of distinct names
RECURSIVE Sorted(_)
Sorted(S) ==
    IF S = {} THEN <<>>
    ELSE LET least == CHOOSE x \in S : \A y \in S \ {x} : StrLess(x, y)
         IN  <<least>> \o Sorted(S \ {least})

\* (mutation of ListScreenshots: every directory entry, without the filter)
ListScreenshots_NoFilter(d) == Sorted(DOMAIN d)

\* sorted([f for f in os.listdir(screenshot_dir) if f.endswith('.png')])
ListScreenshots(d) == Sorted({f \in DOMAIN d : EndsWith(f, DotPng)})

(***************************************************************************)
(* list.sort(key=black_percentage, reverse=True): CPython reverses the     *)
(* list, sorts it stably in ascending key order and reverses it again, so  *)
(* equal keys keep their order.                                            *)
(***************************************************************************)
\* x placed after the last element of the ascending list t whose key is <= x's
InsertAsc(t, x) ==
    LET after == {i \in 1..Len(t) : ~FloatLess(x.black_percentage, t[i].black_percentage)}
        k == IF after = {} THEN 0 ELSE SetMax(after)
    IN  SubSeq(t, 1, k) \o <<x>> \o SubSeq(t, k + 1, Len(t))

RECURSIVE StableSortAsc(_)
StableSortAsc(s) ==
    IF s = <<>> THEN <<>>
    ELSE InsertAsc(StableSortAsc(SubSeq(s, 1, Len(s) - 1)), s[Len(s)])

\* (mutation of SortIssues: an ascending sort reversed, which reverses ties)
SortIssues_SortThenReverse(issues) == Reverse(StableSortAsc(issues))

SortIssues(issues) == Reverse(StableSortAsc(Reverse(issues)))


(***************************************************************************)
(* File contents of the run.  The screenshots are the smallest images that *)
(* reach past both UI boundaries: SceneH rows and SceneW columns.          *)
(***************************************************************************)
SceneW == SidebarRight + 2
SceneH == HeaderBottom + 2
Black == <<0, 0, 0>>
Dim == <<10, 10, 10>>
Rect(top, left, bottom, right) == (top..bottom) \X (left..right)

\* every pixel black: 100 %, flagged
S_AllBlack == Painted("RGB", SceneW, SceneH, Dim, Black,
                      Rect(0, 0, SceneH - 1, SceneW - 1))
\* black rows 0..HeaderBottom over the full width: bottom = 60, not flagged
S_Header == Painted("RGB", SceneW, SceneH, Dim, Black,
                    Rect(0, 0, HeaderBottom, SceneW - 1))
\* black columns 0..SidebarRight over the full height: right = 200, not flagged
S_Sidebar == Painted("RGB", SceneW, SceneH, Dim, Black,
                     Rect(0, 0, SceneH - 1, SidebarRight))
\* one black pixel in the bottom right corner: flagged
S_Corner == Painted("RGB", SceneW, SceneH, Dim, Black,
                    {<<SceneH - 1, SceneW - 1>>})
\* the same picture in grey with one channel per pixel
S_GreyCorner == Painted("L", SceneW, SceneH, <<10>>, <<9>>,
                        {<<SceneH - 1, SceneW - 1>>})
\* a black pixel in the header and one in the sidebar, none in the game view
S_Chrome == Painted("RGBA", SceneW, SceneH, <<255, 255, 255, 0>>, <<0, 0, 0, 255>>,
                    {<<0, SceneW - 1>>, <<SceneH - 1, 0>>})
\* no black pixel: every channel equals the default threshold
S_Dim == Painted("RGB", SceneW, SceneH, Dim, Black, {})
\* a file that opens as an image without rows (a Pillow that refuses such a file
\* in Image.open makes it an undecodable one)
S_Degenerate == Painted("RGB", SceneW, 0, Dim, Black, {})

\* the file contents by name; a directory entry holds the name of its content
Files ==
    [all_black |-> S_AllBlack, header |-> S_Header, sidebar |-> S_Sidebar,
     corner |-> S_Corner, grey_corner |-> S_GreyCorner, chrome |-> S_Chrome,
     dim |-> S_Dim, degenerate |-> S_Degenerate, undecodable |-> Undecodable]
Contents == DOMAIN Files

\* the directories of at most MaxFiles entries
Directories ==
    UNION {[D -> Contents] : D \in {X \in SUBSET Names : Cardinality(X) <= MaxFiles}}

\* detect_black_areas(filepath) with the default threshold, per file content
DefaultDetect == [c \in Contents |-> detect_black_areas(Files[c], DefaultBlackThreshold)]

(***************************************************************************)
(* The run of the script.                                                  *)
(***************************************************************************)
NoResult == <<>>
Line(tag, file, n) == [line |-> tag, file |-> file, n |-> n]
Emit(out, tag) == Append(out, Line(tag, <<>>, 0))

Issue(screenshot, r) ==
    [file |-> screenshot, black_percentage |-> r.percentage,
     region |-> r.black_region, severity |-> "HIGH"]

FnIdle ==
    /\ image = Undecodable
    /\ black_threshold = DefaultBlackThreshold
    /\ black_region = [top |-> 0, left |-> 0, bottom |-> 0, right |-> 0]
    /\ img_size = <<1, 1>>
    /\ game_area_black = FALSE

RunIdle ==
    /\ dir_exists = FALSE
    /\ dir = <<>>
    /\ screenshots = <<>>
    /\ idx = 0
    /\ issues_found = <<>>
    /\ success = {}
    /\ exit_status = {}
    /\ stdout = <<>>
    /\ analyzed = <<>>

fnVars == <<image, black_threshold, black_region, img_size, game_area_black>>
runVars == <<dir_exists, dir, screenshots, idx, issues_found, success,
             exit_status, stdout, analyzed>>

Init ==
    /\ dir_exists \in BOOLEAN
    /\ dir \in (IF dir_exists THEN Directories ELSE {<<>>})
    /\ pc = "main"
    /\ screenshots = <<>>
    /\ idx = 0
    /\ issues_found = <<>>
    /\ result = NoResult
    /\ success = {}
    /\ exit_status = {}
    /\ stdout = <<>>
    /\ analyzed = <<>>
    /\ FnIdle

\* lines 71-76: the directory test
CheckDir ==
    /\ pc = "main"
    /\ IF ~dir_exists
       THEN /\ stdout' = Emit(Emit(stdout, "Directory not found"), "Run: cargo run")
            /\ exit_status' = {1}
            /\ pc' = "exited"
       ELSE /\ pc' = "listdir"
            /\ UNCHANGED <<stdout, exit_status>>
    /\ UNCHANGED <<dir_exists, dir, screenshots, idx, issues_found, result, success,
                   analyzed>>
    /\ UNCHANGED fnVars

\* lines 78-86: the listing
ListDir ==
    /\ pc = "listdir"
    /\ screenshots' = ListScreenshots(dir)
    /\ IF screenshots' = <<>>
       THEN /\ stdout' = Emit(stdout, "No screenshots found")
            /\ exit_status' = {1}
            /\ pc' = "exited"
       ELSE /\ stdout' = Append(stdout, Line("Analyzing screenshots", <<>>,
                                             Len(screenshots')))
            /\ pc' = "loop"
            /\ UNCHANGED exit_status
    /\ issues_found' = <<>>
    /\ UNCHANGED <<dir_exists, dir, idx, result, success, analyzed>>
    /\ UNCHANGED fnVars

\* (mutation of Judged: every screenshot with black pixels becomes an issue)
Judged_AnyBlack(issues, out, screenshot, r, ui_regions) ==
    IF r.has_black
    THEN [issues |-> Append(issues, Issue(screenshot, r)),
          out |-> Append(out, Line("BLACK AREA IN GAME VIEW", screenshot, 0))]
    ELSE [issues |-> issues,
          out |-> Append(out, Line("No significant black areas", screenshot, 0))]

\* lines 96-122: what one iteration does with the result r of screenshot
Judged(issues, out, screenshot, r, ui_regions) ==
    IF r.has_black
    THEN LET out1 == Append(out, Line("BLACK AREAS DETECTED", screenshot, 0))
         IN  IF IsGameAreaBlack(r.black_region, ui_regions)
             THEN [issues |-> Append(issues, Issue(screenshot, r)),
                   out |-> Append(out1, Line("BLACK AREA IN GAME VIEW", screenshot, 0))]
             ELSE [issues |-> issues,
                   out |-> Append(out1, Line("only in UI regions", screenshot, 0))]
    ELSE [issues |-> issues,
          out |-> Append(out, Line("No significant black areas", screenshot, 0))]

\* (mutation of Analyze: a file that does not open is skipped)
Analyze_SkipUnreadable ==
    /\ pc = "loop"
    /\ idx < Len(screenshots)
    /\ LET screenshot == screenshots[idx + 1]
           out == Append(stdout, Line("Analyzing", screenshot, 0))
           r == DefaultDetect[dir[screenshot]]
       IN  /\ idx' = idx + 1
           /\ analyzed' = Append(analyzed, screenshot)
           /\ IF IsRaised(r)
              THEN /\ stdout' = out
                   /\ UNCHANGED <<pc, exit_status, result, issues_found>>
              ELSE LET ui == analyze_ui_regions(Files[dir[screenshot]])
                       j == Judged(issues_found, out, screenshot, r, ui[1])
                   IN  /\ result' = r
                       /\ issues_found' = j.issues
                       /\ stdout' = j.out
                       /\ UNCHANGED <<pc, exit_status>>
    /\ UNCHANGED <<dir_exists, dir, screenshots, success>>
    /\ UNCHANGED fnVars

\* lines 88-122: one iteration of the loop; an exception of Image.open leaves
\* main() and ends the process with status 1
Analyze ==
    /\ pc = "loop"
    /\ idx < Len(screenshots)
    /\ LET screenshot == screenshots[idx + 1]
           out == Append(stdout, Line("Analyzing", screenshot, 0))
           r == DefaultDetect[dir[screenshot]]
       IN  /\ idx' = idx + 1
           /\ analyzed' = Append(analyzed, screenshot)
           /\ IF IsRaised(r)
              THEN /\ pc' = "exited"
                   /\ exit_status' = {1}
                   /\ stdout' = out
                   /\ UNCHANGED <<result, issues_found>>
              ELSE LET ui == analyze_ui_regions(Files[dir[screenshot]])
                       j == Judged(issues_found, out, screenshot, r, ui[1])
                   IN  /\ result' = r
                       /\ issues_found' = j.issues
                       /\ stdout' = j.out
                       /\ UNCHANGED <<pc, exit_status>>
    /\ UNCHANGED <<dir_exists, dir, screenshots, success>>
    /\ UNCHANGED fnVars

\* issue['file'] of issues_found[:5]
TopFiles(issues) ==
    [i \in 1..(IF Len(issues) < TopIssues THEN Len(issues) ELSE TopIssues) |->
       issues[i].file]

CountWith(issues, word) ==
    Cardinality({i \in 1..Len(issues) : Contains(word, Lower(issues[i].file))})

\* lines 129-156: the report of a non-empty and of an empty issue list
Report(out, sorted) ==
    IF sorted # <<>>
    THEN LET out1 == Append(out, Line("ISSUES FOUND", <<>>, Len(sorted)))
             out2 == Append(out1, [line |-> "Most problematic", file |-> TopFiles(sorted),
                                   n |-> Len(TopFiles(sorted))])
             edge == CountWith(sorted, EdgeWord)
             zoom == CountWith(sorted, ZoomWord)
             out3 == IF edge > 0 THEN Append(out2, Line("issues at map edges", <<>>, edge))
                     ELSE out2
         IN  IF zoom > 0 THEN Append(out3, Line("issues when zoomed out", <<>>, zoom))
             ELSE out3
    ELSE Emit(out, "SUCCESS")

\* (mutation of ReturnValue: the test inverted)
ReturnValue_Inverted(issues) == Len(issues) > 0

\* line 158
ReturnValue(issues) == Len(issues) = 0

\* lines 124-158: the summary and the return of main()
Summary ==
    /\ pc = "loop"
    /\ idx = Len(screenshots)
    /\ issues_found' = (IF issues_found # <<>> THEN SortIssues(issues_found)
                        ELSE issues_found)
    /\ stdout' = Report(Emit(stdout, "SUMMARY"), issues_found')
    /\ success' = {ReturnValue(issues_found')}
    /\ pc' = "returned"
    /\ UNCHANGED <<dir_exists, dir, screenshots, idx, result, exit_status, analyzed>>
    /\ UNCHANGED fnVars

\* lines 169-170: sys.exit(0 if success else 1)
Exit ==
    /\ pc = "returned"
    /\ exit_status' = {IF success = {TRUE} THEN 0 ELSE 1}
    /\ pc' = "exited"
    /\ UNCHANGED <<dir_exists, dir, screenshots, idx, issues_found, result, success,
                   stdout, analyzed>>
    /\ UNCHANGED fnVars

Next == CheckDir \/ ListDir \/ Analyze \/ Summary \/ Exit

Spec == Init /\ [][Next]_vars


(***************************************************************************)
(* DetectSpec: detect_black_areas applied once to a decoded image with at  *)
(* least one row and one column, under a threshold.                        *)
(***************************************************************************)
NearBlack == <<9, 10, 9>>
Palette == {Black, NearBlack}
Thresholds == {0, DefaultBlackThreshold, DefaultBlackThreshold + 1}

\* every RGB image of at most MaxRows rows and MaxCols columns over the palette
SmallImages ==
    UNION {UNION {{[kind |-> "image", mode |-> "RGB", size |-> <<w, h>>, data |-> d] :
                     d \in [0..(h - 1) -> [0..(w - 1) -> Palette]]} :
                  w \in 1..MaxCols} :
           h \in 1..MaxRows}

LoadedScenes == {Files[c] : c \in {k \in Contents : Files[k].kind = "image"
                                                    /\ Files[k].size[1] >= 1
                                                    /\ Files[k].size[2] >= 1}}

DetectInit ==
    /\ pc = "detect"
    /\ image \in SmallImages \cup LoadedScenes
    /\ black_threshold \in Thresholds
    /\ result = NoResult
    /\ black_region = [top |-> 0, left |-> 0, bottom |-> 0, right |-> 0]
    /\ img_size = <<1, 1>>
    /\ game_area_black = FALSE
    /\ RunIdle

DetectCall ==
    /\ pc = "detect"
    /\ result' = detect_black_areas(image, black_threshold)
    /\ pc' = "detected"
    /\ UNCHANGED runVars
    /\ UNCHANGED fnVars

DetectSpec == DetectInit /\ [][DetectCall]_vars

(***************************************************************************)
(* ClassifySpec: the intrusion decision of main() applied once to a        *)
(* bounding box inside an image of a given size.                           *)
(***************************************************************************)
Widths == {1, SidebarRight, SidebarRight + 1, SidebarRight + 2, 4 * SidebarRight}
Heights == {1, HeaderBottom, HeaderBottom + 1, HeaderBottom + 2, 10 * HeaderBottom}

Boxes(w, h) ==
    LET ys == {y \in {0, HeaderBottom - 1, HeaderBottom, HeaderBottom + 1, h - 1} : y < h}
        xs == {x \in {0, SidebarRight - 1, SidebarRight, SidebarRight + 1, w - 1} : x < w}
    IN  {[top |-> t, left |-> l, bottom |-> b, right |-> r] :
            t \in ys, l \in xs, b \in ys, r \in xs} \cap
        {[top |-> t, left |-> l, bottom |-> b, right |-> r] :
            <<t, b>> \in {yy \in ys \X ys : yy[1] <= yy[2]},
            <<l, r>> \in {xx \in xs \X xs : xx[1] <= xx[2]}}

ClassifyInit ==
    /\ pc = "classify"
    /\ img_size \in Widths \X Heights
    /\ black_region \in Boxes(img_size[1], img_size[2])
    /\ game_area_black = FALSE
    /\ image = Undecodable
    /\ black_threshold = DefaultBlackThreshold
    /\ result = NoResult
    /\ RunIdle

Classify ==
    /\ pc = "classify"
    /\ game_area_black' =
           IsGameAreaBlack(black_region, analyze_ui_regions([size |-> img_size])[1])
    /\ pc' = "classified"
    /\ UNCHANGED runVars
    /\ UNCHANGED <<result, image, black_threshold, black_region, img_size>>

ClassifySpec == ClassifyInit /\ [][Classify]_vars


(***************************************************************************)
(* Claims about the pure functions.                                        *)
(***************************************************************************)
\* the cells of the image whose R, G and B values are all below the threshold
BlackCells(img, thr) ==
    LET rgb == ConvertRGB(img).data
    IN  {yx \in (0..(img.size[2] - 1)) \X (0..(img.size[1] - 1)) :
            /\ rgb[yx[1]][yx[2]][1] < thr
            /\ rgb[yx[1]][yx[2]][2] < thr
            /\ rgb[yx[1]][yx[2]][3] < thr}

HasRegion(r) == "black_region" \in DOMAIN r

\* C1: the decision of main() flags a bounding box iff its bottom is beyond
\* the header's bottom (60) and its right is beyond the sidebar's right (200),
\* whatever its top and left and whatever the width and height of the image.
C1_IntrusionIffBothBeyond ==
    pc = "classified" =>
        (game_area_black <=> (black_region.bottom > 60 /\ black_region.right > 200))

\* a flagged box, and unflagged boxes on each boundary and of full height and width
C1_Witness ==
    /\ pc = "classified"
    /\ game_area_black
    /\ black_region.bottom = 61
    /\ black_region.right = 201
    /\ img_size = <<202, 62>>

\* C2: a pixel counts as black iff its three channels are all strictly below the
\* threshold; has_black holds and black_region is present iff that count is
\* positive; without a black pixel has_black is false, black_region is absent
\* and percentage is 0.
C2_BlackIffAllBelow ==
    pc = "detected" =>
        LET B == BlackCells(image, black_threshold)
            n == Cardinality(B)
            mask == BlackMask(NpArray(ConvertRGB(image)), black_threshold)
        IN  /\ \A y \in DOMAIN mask : \A x \in DOMAIN mask[y] :
                   mask[y][x] <=> <<y, x>> \in B
            /\ result.black_pixels = n
            /\ result.has_black <=> n > 0
            /\ HasRegion(result) <=> n > 0
            /\ n = 0 => /\ ~result.has_black
                        /\ ~HasRegion(result)
                        /\ result.percentage = FloatOf(0)

\* an image with a pixel that has a channel equal to the threshold beside a black one
C2_Witness ==
    /\ pc = "detected"
    /\ black_threshold = DefaultBlackThreshold
    /\ image.size = <<2, 1>>
    /\ image.data[0][0] = NearBlack
    /\ image.data[0][1] = Black
    /\ result.has_black
    /\ result.black_pixels = 1

\* C3: a returned black_region is the minimal inclusive bounding box of the black
\* pixels: it holds every black pixel, each of its four edges holds one, and it
\* lies inside the image.
C3_MinimalBoundingBox ==
    (pc = "detected" /\ HasRegion(result)) =>
        LET B == BlackCells(image, black_threshold)
            box == result.black_region
        IN  /\ \A yx \in B : /\ box.top <= yx[1] /\ yx[1] <= box.bottom
                             /\ box.left <= yx[2] /\ yx[2] <= box.right
            /\ \E yx \in B : yx[1] = box.top
            /\ \E yx \in B : yx[1] = box.bottom
            /\ \E yx \in B : yx[2] = box.left
            /\ \E yx \in B : yx[2] = box.right
            /\ 0 <= box.top /\ box.top <= box.bottom /\ box.bottom <= image.size[2] - 1
            /\ 0 <= box.left /\ box.left <= box.right /\ box.right <= image.size[1] - 1

\* black pixels that are not a rectangle: the box holds cells that are not black
C3_Witness ==
    /\ pc = "detected"
    /\ HasRegion(result)
    /\ result.black_region = [top |-> 0, left |-> 1, bottom |-> 1, right |-> 2]
    /\ result.black_pixels = 2
    /\ image.size = <<3, 2>>

\* C4: for an image of at least one row and column, 0 <= black_pixels <=
\* total_pixels = width * height, percentage = 100 * black_pixels / total_pixels
\* lies in [0, 100], is 0 iff no pixel is black and 100 iff every pixel is.
C4_PercentageRange ==
    (pc = "detected" /\ image.size[1] >= 1 /\ image.size[2] >= 1) =>
        /\ result.total_pixels = image.size[1] * image.size[2]
        /\ 0 <= result.black_pixels
        /\ result.black_pixels <= result.total_pixels
        /\ result.black_pixels = Cardinality(BlackCells(image, black_threshold))
        /\ ~IsNaN(result.percentage)
        /\ result.percentage.num * result.total_pixels
             = 100 * result.black_pixels * result.percentage.den
        /\ ~FloatLess(result.percentage, FloatOf(0))
        /\ ~FloatLess(FloatOf(100), result.percentage)
        /\ FloatEq(result.percentage, FloatOf(0)) <=> result.black_pixels = 0
        /\ FloatEq(result.percentage, FloatOf(100))
             <=> result.black_pixels = result.total_pixels

\* a percentage strictly between 0 and 100
C4_Witness ==
    /\ pc = "detected"
    /\ result.black_pixels = 1
    /\ result.total_pixels = 3
    /\ result.percentage = [num |-> 100, den |-> 3]


(***************************************************************************)
(* Claims about the run.                                                   *)
(***************************************************************************)
HasLine(tag) == \E i \in 1..Len(stdout) : stdout[i].line = tag
SummaryReached == success # {}
Aborted == pc = "exited" /\ success = {} /\ screenshots # <<>>
Unreadable(f) == Files[dir[f]].kind # "image"
Degenerate(f) ==
    /\ Files[dir[f]].kind = "image"
    /\ (Files[dir[f]].size[1] = 0 \/ Files[dir[f]].size[2] = 0)

\* the detection result of file f has black pixels and its region is judged an
\* intrusion
Flagged(f) ==
    LET r == DefaultDetect[dir[f]]
    IN  /\ ~IsRaised(r)
        /\ r.has_black
        /\ r.black_region.bottom > 60
        /\ r.black_region.right > 200

ExpectedIssue(f) ==
    [file |-> f, black_percentage |-> DefaultDetect[dir[f]].percentage,
     region |-> DefaultDetect[dir[f]].black_region, severity |-> "HIGH"]

\* the issues of the first k screenshots, in the order of the screenshots
RECURSIVE ExpectedIssues(_)
ExpectedIssues(k) ==
    IF k = 0 THEN <<>>
    ELSE IF Flagged(screenshots[k])
         THEN Append(ExpectedIssues(k - 1), ExpectedIssue(screenshots[k]))
         ELSE ExpectedIssues(k - 1)

IsPrefix(s, t) == Len(s) <= Len(t) /\ SubSeq(t, 1, Len(s)) = s
Range(s) == {s[i] : i \in 1..Len(s)}

\* C5: after a run over every screenshot the issue list holds exactly one issue
\* for each flagged screenshot and none for another, each with the screenshot's
\* file name, percentage and region and severity HIGH; during the scan the list
\* only grows by appends.
C5_OneIssuePerFlagged ==
    /\ [](SummaryReached =>
            /\ Len(issues_found) = Len(ExpectedIssues(Len(screenshots)))
            /\ \A f \in Range(screenshots) :
                 Cardinality({i \in 1..Len(issues_found) : issues_found[i].file = f})
                   = (IF Flagged(f) THEN 1 ELSE 0)
            /\ \A i \in 1..Len(issues_found) :
                 /\ issues_found[i].file \in Range(screenshots)
                 /\ issues_found[i] = ExpectedIssue(issues_found[i].file)
                 /\ issues_found[i].severity = "HIGH")
    /\ [][(pc = "loop" /\ pc' # "returned") =>
            /\ IsPrefix(issues_found, issues_found')
            /\ Len(issues_found') <= Len(issues_found) + 1]_vars

\* a finished run with a flagged and an unflagged screenshot that has black pixels
C5_Witness ==
    /\ SummaryReached
    /\ Len(screenshots) = 3
    /\ Len(issues_found) = 2
    /\ \E f \in Range(screenshots) : DefaultDetect[dir[f]].has_black /\ ~Flagged(f)

\* C6: the issue list is sorted once, after the last screenshot and never during
\* the scan; the final list is non-increasing in black_percentage, a permutation
\* of the collected issues, and issues of equal black_percentage stay in
\* ascending order of their file names.
C6_SortedOnceDescendingStable ==
    /\ [](pc = "loop" => issues_found = ExpectedIssues(idx))
    /\ [](SummaryReached =>
            /\ Range(issues_found) = Range(ExpectedIssues(Len(screenshots)))
            /\ Len(issues_found) = Len(ExpectedIssues(Len(screenshots)))
            /\ \A i, j \in 1..Len(issues_found) :
                 i < j =>
                   /\ ~FloatLess(issues_found[i].black_percentage,
                                 issues_found[j].black_percentage)
                   /\ FloatEq(issues_found[i].black_percentage,
                              issues_found[j].black_percentage)
                        => StrLess(issues_found[i].file, issues_found[j].file))
    /\ [][~IsPrefix(issues_found, issues_found') =>
            (pc = "loop" /\ idx = Len(screenshots) /\ pc' = "returned")]_vars

\* a final list that differs from the collected one and holds a tie
C6_Witness ==
    /\ SummaryReached
    /\ Len(issues_found) = 3
    /\ issues_found # ExpectedIssues(Len(screenshots))
    /\ FloatEq(issues_found[2].black_percentage, issues_found[3].black_percentage)
    /\ FloatLess(issues_found[2].black_percentage, issues_found[1].black_percentage)

\* C7: in a run that reaches the summary main() returns True and the process
\* exits with 0 iff the issue list is empty, and returns False and exits with 1
\* iff some screenshot was flagged; black areas confined to the UI regions never
\* make the run fail.
C7_VerdictIffNoIssue ==
    SummaryReached =>
        /\ success = {TRUE} <=> issues_found = <<>>
        /\ success = {FALSE} <=> (\E f \in Range(screenshots) : Flagged(f))
        /\ pc = "exited" =>
             /\ exit_status = {0} <=> issues_found = <<>>
             /\ exit_status = {1} <=> (\E f \in Range(screenshots) : Flagged(f))
        /\ pc # "exited" => exit_status = {}

\* a passing run over screenshots with black pixels in the UI regions only
C7_Witness ==
    /\ pc = "exited"
    /\ exit_status = {0}
    /\ Len(screenshots) = 2
    /\ \A f \in Range(screenshots) : DefaultDetect[dir[f]].has_black

\* C8: when the directory is missing or holds no name ending in .png, the run
\* ends with a failure status before any analysis: detect_black_areas is never
\* called, no issue is created, no summary and no pass verdict is produced.
NoScreenshots == ~dir_exists \/ \A f \in DOMAIN dir : ~EndsWith(f, DotPng)

C8_NoInputFails ==
    NoScreenshots =>
        /\ analyzed = <<>>
        /\ issues_found = <<>>
        /\ DOMAIN result = {}
        /\ ~HasLine("SUMMARY")
        /\ ~HasLine("SUCCESS")
        /\ success = {}
        /\ pc \in {"main", "listdir", "exited"}
        /\ pc = "exited" => exit_status = {1}
        /\ pc # "exited" => (exit_status = {} /\ ENABLED Next)

\* an existing directory whose only entry does not qualify
C8_Witness ==
    /\ dir_exists
    /\ DOMAIN dir = {Name_aPNG}
    /\ pc = "exited"
    /\ exit_status = {1}

\* C9: a run analyses the discovered screenshots in ascending order, each once,
\* and then produces the summary and the verdict, or it stops at the first
\* screenshot that does not open: nothing is analysed or appended after it, no
\* summary or verdict is produced and the process ends with a failure status.
FirstUnreadable == SetMin({i \in 1..Len(screenshots) : Unreadable(screenshots[i])})

C9_AllOrAbortAtFirstFailure ==
    /\ [](/\ IsPrefix(analyzed, screenshots)
          /\ Len(analyzed) = idx
          /\ \A i \in 1..(Len(screenshots) - 1) :
               StrLess(screenshots[i], screenshots[i + 1])
          /\ (pc \in {"loop", "returned"} \/ SummaryReached \/ Aborted) =>
               Range(screenshots) = {f \in DOMAIN dir : EndsWith(f, DotPng)}
          /\ \A i \in 1..Len(analyzed) :
               Unreadable(analyzed[i]) => (Aborted /\ i = Len(analyzed))
          /\ SummaryReached =>
               /\ analyzed = screenshots
               /\ \A f \in Range(screenshots) : ~Unreadable(f)
               /\ HasLine("SUMMARY")
          /\ Aborted =>
               /\ analyzed = SubSeq(screenshots, 1, FirstUnreadable)
               /\ issues_found = ExpectedIssues(FirstUnreadable - 1)
               /\ ~HasLine("SUMMARY")
               /\ ~HasLine("SUCCESS")
               /\ exit_status = {1}
               /\ ~ENABLED Next)
    /\ [][/\ (pc = "loop" /\ idx < Len(screenshots)) =>
               /\ analyzed' = Append(analyzed, screenshots[idx + 1])
               /\ Unreadable(screenshots[idx + 1]) =>
                    (pc' = "exited" /\ exit_status' = {1} /\ success' = {}
                     /\ issues_found' = issues_found)
               /\ ~Unreadable(screenshots[idx + 1]) => pc' = "loop"
          /\ (pc = "loop" /\ idx = Len(screenshots)) =>
               (pc' = "returned" /\ success' # {} /\ analyzed' = analyzed)]_vars

\* a run stopped at the second of three screenshots after an issue was recorded
C9_Witness ==
    /\ Aborted
    /\ Len(screenshots) = 3
    /\ Len(analyzed) = 2
    /\ Len(issues_found) = 1
    /\ ~Unreadable(screenshots[3])

\* C10: detect_black_areas fails on an image without rows or columns: no result
\* is returned for it and the division by total_pixels = 0 is never performed.
C10_DegenerateImageFails ==
    /\ \A i \in 1..Len(analyzed) :
         Degenerate(analyzed[i]) => (Aborted /\ i = Len(analyzed))
    /\ DOMAIN result # {} => ~IsNaN(result.percentage)

====
